---- MODULE Spec2Model ----
(***************************************************************************)
(* State machine of the flowchart editor component FlowchartBuilder        *)
(* (src/frontend_flow_chart_builder/src/FlowchartBuilder.js).              *)
(*                                                                         *)
(* React state (useState) is one variable per hook; refs (useRef) are      *)
(* variables that do not cause a re-render when written.  A handler that   *)
(* is attached through JSX always belongs to the committed render and so   *)
(* reads the current state.  A handler registered on window with           *)
(* addEventListener is the closure of the render that registered it: it    *)
(* keeps that render's nodes and edges until it is removed.  Each element  *)
(* of listeners is one such registered mousemove/mouseup pair.             *)
(*                                                                         *)
(* Node ids `node-${n}` are modelled by the number n, edge ids             *)
(* `e-${from}-${to}` by the tuple <<"e", from, to>>.                       *)
(* Pointer coordinates are inputs: the position that handleNodeDrag and    *)
(* handleAddNode compute from them (a bijective image of the pointer       *)
(* coordinate for a fixed zoom factor) is drawn from Positions, and the    *)
(* offset handleCanvasPanMove computes is drawn from PanOffsets.           *)
(* transform.k is kept in fixed point, KUnit standing for 1.               *)
(***************************************************************************)
EXTENDS Integers, Sequences, FiniteSets, TLC

VARIABLES
  nodes,         \* useState: sequence of node records
  edges,         \* useState: sequence of edge records
  selectedNode,  \* useState: node id or NULL
  editingNode,   \* useState: <<>> (null) or <<node record>> (copy taken at double click)
  connecting,    \* useState: node id or NULL
  history,       \* useState: past stack, most recent last
  future,        \* useState: future stack, next redo first
  transform,     \* useState: [x, y, k]
  idCounter,     \* the counter closed over by generateId
  draggingNode,  \* useRef: node id or NULL
  panning,       \* useRef: BOOLEAN
  editorLabel,   \* NodePropertiesEditor's useState label ("" while unmounted)
  listeners,     \* window mousemove/mouseup listener pairs, in registration order
  wheelCount,    \* number of wheel events handled so far (caps the zoom values explored)
  dragBegin,     \* history variable: <<[nodes, edges]>> at the pointer-down that began the drag in progress
  lastOp,        \* history variable: the last document operation and the stack depths before it
  profile        \* which group of handlers this session uses (fixed at Init, see Profiles)

vars == <<nodes, edges, selectedNode, editingNode, connecting, history, future, transform,
          idCounter, draggingNode, panning, editorLabel, listeners, wheelCount,
          dragBegin, lastOp, profile>>

----------------------------------------------------------------------------
(* Bounds of the exploration *)

MaxNodes == 2
MaxId == 3
MaxSkip == 1
MaxHist == 2
MaxListeners == 2
MaxCoord == 1
MaxWheel == 1
MaxNotches == 21

(* Program constants *)

NULL == -1
KUnit == 1000000
KMin == 200000
KMax == 2500000
ZoomInPct == 108
ZoomOutPct == 92

Positions == {[x |-> 220 + 40 * i, y |-> 170] : i \in 0..MaxCoord}
PanOffsets == {[x |-> 0, y |-> 0], [x |-> 30, y |-> 20]}
TypedLabels == {"Edited"}
Buttons == {0, 1, 2}
Targets == {"svg", "canvas-bg", "line"}
Keys == {"z", "y", "Delete", "a"}

(* The product of document, editor, gesture and view state is beyond exhaustive search.
   A session is explored within one profile, a group of handlers:
     document  the sidebar, the topbar, the keyboard, selection and the label editor
     drag      node drag and pan gestures on the initial node, with selection, the
               keyboard and the topbar
     connect   the sidebar, the connect handle, node and canvas pointer events
   Every formula is checked over the sessions of every profile. *)
Profiles == {"document", "drag", "connect"}

(* A view session (SpecView) uses the wheel and the pan gesture only, with enough wheel
   notches to reach both ends of the zoom range and with far pan offsets. *)
FarOffsets == {[x |-> 0, y |-> 0], [x |-> 1000000, y |-> -1000000]}
WheelBound == IF profile = "view" THEN MaxNotches ELSE MaxWheel

----------------------------------------------------------------------------
(* Helpers *)

Last(s) == s[Len(s)]
NodeIds(ns) == {ns[i].id : i \in DOMAIN ns}
FindNode(ns, id) == ns[CHOOSE i \in DOMAIN ns : ns[i].id = id /\ \A j \in DOMAIN ns : ns[j].id = id => i <= j]

(* JSON.parse(JSON.stringify(v)): rebuilds every record from its own fields *)
JsonCloneNodes(ns) ==
  [i \in DOMAIN ns |->
     [id |-> ns[i].id, type |-> ns[i].type,
      position |-> [x |-> ns[i].position.x, y |-> ns[i].position.y],
      data |-> [label |-> ns[i].data.label]]]
JsonCloneEdges(es) ==
  [i \in DOMAIN es |-> [from |-> es[i].from, to |-> es[i].to, id |-> es[i].id]]

(* The closures of the render that is replaced are no longer the ones JSX attaches *)
Stale(ls) == [i \in DOMAIN ls |-> [ls[i] EXCEPT !.cur = FALSE]]
AfterRender(ls, rendered) == IF rendered THEN Stale(ls) ELSE ls

(* window.addEventListener of a handler pair of the current render: the same function
   object is registered once only *)
HasCurrent(ls, kind) == \E i \in DOMAIN ls : ls[i].kind = kind /\ ls[i].cur
AddListener(ls, kind, ns, es) ==
  IF HasCurrent(ls, kind) THEN ls
  ELSE Append(ls, [kind |-> kind, cur |-> TRUE, nodes |-> ns, edges |-> es])

----------------------------------------------------------------------------
(* Handlers as functions of the state they read *)

(* Variant of pushHistory that appends the snapshot and leaves the future stack alone *)
pushHistoryKeepsFuture(h, f, ns, es) ==
  [history |-> Append(h, [nodes |-> JsonCloneNodes(ns), edges |-> JsonCloneEdges(es)]),
   future |-> f]

(* pushHistory: setHistory(h => [...h, copy of {nodes, edges}]); setFuture([]) *)
pushHistory(h, f, ns, es) ==
  [history |-> Append(h, [nodes |-> JsonCloneNodes(ns), edges |-> JsonCloneEdges(es)]),
   future |-> <<>>]

Doc == [nodes |-> nodes, edges |-> edges, history |-> history, future |-> future,
        selectedNode |-> selectedNode]

(* Variant of handleUndo that clears the selection before it looks at the past stack *)
handleUndoClearsSelectionFirst(d) ==
  IF Len(d.history) = 0 THEN [d EXCEPT !.selectedNode = NULL]
  ELSE LET prev == d.history[Len(d.history)] IN
       [nodes |-> prev.nodes, edges |-> prev.edges,
        history |-> SubSeq(d.history, 1, Len(d.history) - 1),
        future |-> <<[nodes |-> d.nodes, edges |-> d.edges]>> \o d.future,
        selectedNode |-> NULL]

(* Variant of handleUndo that keeps the selection *)
handleUndoKeepsSelection(d) ==
  IF Len(d.history) = 0 THEN d
  ELSE LET prev == d.history[Len(d.history)] IN
       [nodes |-> prev.nodes, edges |-> prev.edges,
        history |-> SubSeq(d.history, 1, Len(d.history) - 1),
        future |-> <<[nodes |-> d.nodes, edges |-> d.edges]>> \o d.future,
        selectedNode |-> d.selectedNode]

handleUndo(d) ==
  IF Len(d.history) = 0 THEN d
  ELSE LET prev == d.history[Len(d.history)] IN
       [nodes |-> prev.nodes, edges |-> prev.edges,
        history |-> SubSeq(d.history, 1, Len(d.history) - 1),
        future |-> <<[nodes |-> d.nodes, edges |-> d.edges]>> \o d.future,
        selectedNode |-> NULL]

(* Variant of handleRedo that pushes the state it restores instead of the one it leaves *)
handleRedoPushesNext(d) ==
  IF Len(d.future) = 0 THEN d
  ELSE LET next == d.future[1] IN
       [nodes |-> next.nodes, edges |-> next.edges,
        history |-> Append(d.history, [nodes |-> next.nodes, edges |-> next.edges]),
        future |-> SubSeq(d.future, 2, Len(d.future)),
        selectedNode |-> NULL]

handleRedo(d) ==
  IF Len(d.future) = 0 THEN d
  ELSE LET next == d.future[1] IN
       [nodes |-> next.nodes, edges |-> next.edges,
        history |-> Append(d.history, [nodes |-> d.nodes, edges |-> d.edges]),
        future |-> SubSeq(d.future, 2, Len(d.future)),
        selectedNode |-> NULL]

NewNode(id, type, p) ==
  [id |-> id, type |-> type, position |-> p, data |-> [label |-> "New Node"]]

(* Variant of generateId that returns the counter without incrementing it *)
generateIdNoIncrement(c) == [value |-> c, counter |-> c]

(* generateId: returns the counter and increments it *)
generateId(c) == [value |-> c, counter |-> c + 1]

(* handleNodeDrag's setNodes updater: the dragged node gets the computed position *)
MoveNodeTo(ns, id, p) ==
  [i \in DOMAIN ns |-> IF ns[i].id = id THEN [ns[i] EXCEPT !.position = p] ELSE ns[i]]

(* handleDragNode's setNodes updater: the node with the id is shifted by (dx, dy) *)
handleDragNode(ns, id, dx, dy) ==
  [i \in DOMAIN ns |->
     IF ns[i].id = id
     THEN [ns[i] EXCEPT !.position = [x |-> ns[i].position.x + dx, y |-> ns[i].position.y + dy]]
     ELSE ns[i]]

(* Variant of the node replacement that appends the node when no id matches *)
ReplaceNodeOrAppend(ns, updatedNode) ==
  IF \E i \in DOMAIN ns : ns[i].id = updatedNode.id
  THEN [i \in DOMAIN ns |-> IF ns[i].id = updatedNode.id THEN updatedNode ELSE ns[i]]
  ELSE Append(ns, updatedNode)

(* handleNodeUpdate's setNodes updater: the node with the id is replaced as a whole *)
ReplaceNode(ns, updatedNode) ==
  [i \in DOMAIN ns |-> IF ns[i].id = updatedNode.id THEN updatedNode ELSE ns[i]]

(* Variant of the node filter with the comparison inverted *)
RemoveNodeInverted(ns, id) == LET Keep(n) == n.id = id IN SelectSeq(ns, Keep)

(* handleKeyDown's Delete branch updaters *)
RemoveNode(ns, id) == LET Keep(n) == n.id # id IN SelectSeq(ns, Keep)
RemoveEdgesOf(es, id) == LET Keep(e) == e.from # id /\ e.to # id IN SelectSeq(es, Keep)

(* handleCompleteConnect: defined by the component but attached to no element *)
handleCompleteConnect(c, h, f, ns, es, targetId) ==
  IF c # NULL /\ c # targetId
  THEN [history |-> pushHistory(h, f, ns, es).history,
        future |-> pushHistory(h, f, ns, es).future,
        edges |-> Append(es, [from |-> c, to |-> targetId, id |-> <<"e", c, targetId>>]),
        connecting |-> NULL]
  ELSE [history |-> h, future |-> f, edges |-> es, connecting |-> NULL]

(* handleWheel's scale: Math.max(0.2, Math.min(2.5, k * (deltaY < 0 ? 1.08 : 0.92))) *)
Min(a, b) == IF a < b THEN a ELSE b
Max(a, b) == IF a > b THEN a ELSE b

(* Variant of the scale without the lower clamp *)
WheelScaleNoFloor(k, zoomIn) ==
  Min(KMax, (k * (IF zoomIn THEN ZoomInPct ELSE ZoomOutPct)) \div 100)

WheelScale(k, zoomIn) ==
  Max(KMin, Min(KMax, (k * (IF zoomIn THEN ZoomInPct ELSE ZoomOutPct)) \div 100))

----------------------------------------------------------------------------
(* Window listeners.  An event runs every listener registered when it is dispatched,
   in registration order; st threads what the listeners read and write. *)

handleNodeDrag(st, l, p) ==
  IF st.draggingNode = NULL THEN st
  ELSE [st EXCEPT !.nodes = MoveNodeTo(@, st.draggingNode, p), !.rendered = TRUE]

handleCanvasPanMove(st, l, o) ==
  IF ~st.panning THEN st
  ELSE [st EXCEPT !.transform = [@ EXCEPT !.x = o.x, !.y = o.y], !.rendered = TRUE]

RECURSIVE DispatchMouseMove(_, _, _, _, _)
DispatchMouseMove(ls, i, st, p, o) ==
  IF i > Len(ls) THEN st
  ELSE DispatchMouseMove(ls, i + 1,
         IF ls[i].kind = "drag" THEN handleNodeDrag(st, ls[i], p)
         ELSE handleCanvasPanMove(st, ls[i], o), p, o)

(* Variant of handleNodeMouseUp without the early return on an idle drag ref *)
handleNodeMouseUpNoGuard(st, l, i) ==
  [st EXCEPT !.history = pushHistory(st.history, st.future, l.nodes, l.edges).history,
             !.future = pushHistory(st.history, st.future, l.nodes, l.edges).future,
             !.draggingNode = NULL,
             !.removed = @ \cup {i},
             !.pushed = @ + 1,
             !.rendered = TRUE]

handleNodeMouseUp(st, l, i) ==
  IF st.draggingNode = NULL THEN st
  ELSE [st EXCEPT !.history = pushHistory(st.history, st.future, l.nodes, l.edges).history,
                  !.future = pushHistory(st.history, st.future, l.nodes, l.edges).future,
                  !.draggingNode = NULL,
                  !.removed = @ \cup {i},
                  !.pushed = @ + 1,
                  !.rendered = TRUE]

(* Variant of handleCanvasPanEnd that commits a snapshot the way handleNodeMouseUp does *)
handleCanvasPanEndCommits(st, l, i) ==
  [st EXCEPT !.history = pushHistory(st.history, st.future, l.nodes, l.edges).history,
             !.future = pushHistory(st.history, st.future, l.nodes, l.edges).future,
             !.panning = FALSE,
             !.removed = @ \cup {i}]

handleCanvasPanEnd(st, l, i) ==
  [st EXCEPT !.panning = FALSE, !.removed = @ \cup {i}]

RECURSIVE DispatchMouseUp(_, _, _)
DispatchMouseUp(ls, i, st) ==
  IF i > Len(ls) THEN st
  ELSE DispatchMouseUp(ls, i + 1,
         IF ls[i].kind = "drag" THEN handleNodeMouseUp(st, ls[i], i)
         ELSE handleCanvasPanEnd(st, ls[i], i))

RECURSIVE Without(_, _, _)
Without(ls, removed, i) ==
  IF i > Len(ls) THEN <<>>
  ELSE (IF i \in removed THEN <<>> ELSE <<ls[i]>>) \o Without(ls, removed, i + 1)

----------------------------------------------------------------------------
(* lastOp names the document operations (add, drag end, save, delete, undo, redo, and an
   undo or redo that found its stack empty) and the depth of the two stacks before them;
   every other handler leaves "other".  ops counts the recorded operations completed
   since the start, and is NULL once an undo or a redo has taken effect. *)
RecordedOps == {"handleAddNode", "nodeDragEnd", "EditorSave", "keyDelete"}
Op(name) ==
  /\ lastOp' = [op |-> name, histLen |-> Len(history), futLen |-> Len(future),
                ops |-> IF name \in {"handleUndo", "handleRedo", "undoThenRedo"} THEN NULL
                        ELSE IF name \in RecordedOps /\ lastOp.ops # NULL THEN lastOp.ops + 1
                        ELSE lastOp.ops]
  /\ UNCHANGED profile
Other ==
  /\ lastOp' = [op |-> "other", histLen |-> 0, futLen |-> 0, ops |-> lastOp.ops]
  /\ UNCHANGED profile

InitialNodes ==
  <<[id |-> generateId(0).value, type |-> "default",
     position |-> [x |-> 220, y |-> 170], data |-> [label |-> "Start Node"]]>>

Start ==
  /\ nodes = InitialNodes
  /\ edges = <<>>
  /\ selectedNode = NULL
  /\ editingNode = <<>>
  /\ connecting = NULL
  /\ history = <<>>
  /\ future = <<>>
  /\ transform = [x |-> 0, y |-> 0, k |-> KUnit]
  /\ idCounter = generateId(0).counter
  /\ draggingNode = NULL
  /\ panning = FALSE
  /\ editorLabel = ""
  /\ listeners = <<>>
  /\ wheelCount = 0
  /\ dragBegin = <<>>
  /\ lastOp = [op |-> "other", histLen |-> 0, futLen |-> 0, ops |-> 0]

Init ==
  /\ Start
  /\ profile \in Profiles

InitView ==
  /\ Start
  /\ profile = "view"

(* Sidebar "+ Node": handleAddNode({type: "default"}).  skip counts the generateId calls
   whose result was discarded since the last id was handed out (the useState initial
   value is evaluated again on every render). *)
handleAddNode(type, p, skip) ==
  /\ Len(nodes) < MaxNodes
  /\ Len(history) < MaxHist
  /\ idCounter + skip < MaxId
  /\ LET g == generateId(idCounter + skip) IN
       /\ nodes' = Append(nodes, NewNode(g.value, type, p))
       /\ idCounter' = g.counter
  /\ history' = pushHistory(history, future, nodes, edges).history
  /\ future' = pushHistory(history, future, nodes, edges).future
  /\ listeners' = AfterRender(listeners, TRUE)
  /\ Op("handleAddNode")
  /\ UNCHANGED <<edges, selectedNode, editingNode, connecting, transform, draggingNode,
                 panning, editorLabel, wheelCount, dragBegin>>

(* connect circle onMouseDown: stopPropagation, handleStartConnect(node.id) *)
handleStartConnect(id) ==
  /\ id \in NodeIds(nodes)
  /\ connecting' = id
  /\ listeners' = AfterRender(listeners, connecting # id)
  /\ Other
  /\ UNCHANGED <<nodes, edges, selectedNode, editingNode, history, future, transform,
                 idCounter, draggingNode, panning, editorLabel, wheelCount, dragBegin>>

(* node <g> onMouseDown *)
handleNodeMouseDown(id) ==
  /\ id \in NodeIds(nodes)
  /\ HasCurrent(listeners, "drag") \/ Len(listeners) < MaxListeners
  /\ draggingNode' = id
  /\ listeners' = AddListener(listeners, "drag", nodes, edges)
  /\ dragBegin' = IF draggingNode = NULL THEN <<[nodes |-> nodes, edges |-> edges]>>
                   ELSE dragBegin
  /\ Other
  /\ UNCHANGED <<nodes, edges, selectedNode, editingNode, connecting, history, future,
                 transform, idCounter, panning, editorLabel, wheelCount>>

(* The browser dispatches click and dblclick after the mouseup of the press, and a
   mouseup runs every registered handleNodeMouseUp and handleCanvasPanEnd first *)
Released == draggingNode = NULL /\ ~panning

(* node <g> onClick: stopPropagation, setSelectedNode(node.id) *)
NodeClick(id) ==
  /\ id \in NodeIds(nodes)
  /\ Released
  /\ selectedNode' = id
  /\ listeners' = AfterRender(listeners, selectedNode # id)
  /\ Other
  /\ UNCHANGED <<nodes, edges, editingNode, connecting, history, future, transform,
                 idCounter, draggingNode, panning, editorLabel, wheelCount, dragBegin>>

(* window "mousemove": every registered handleNodeDrag / handleCanvasPanMove *)
WindowMouseMove(p, o) ==
  /\ listeners # <<>>
  /\ LET st == DispatchMouseMove(listeners, 1,
                 [nodes |-> nodes, transform |-> transform, draggingNode |-> draggingNode,
                  panning |-> panning, rendered |-> FALSE], p, o) IN
       /\ nodes' = st.nodes
       /\ transform' = st.transform
       /\ listeners' = AfterRender(listeners, st.rendered)
  /\ Other
  /\ UNCHANGED <<edges, selectedNode, editingNode, connecting, history, future, idCounter,
                 draggingNode, panning, editorLabel, wheelCount, dragBegin>>

(* window "mouseup": every registered handleNodeMouseUp / handleCanvasPanEnd *)
WindowMouseUp ==
  /\ listeners # <<>>
  /\ draggingNode # NULL => Len(history) < MaxHist
  /\ LET st == DispatchMouseUp(listeners, 1,
                 [draggingNode |-> draggingNode, panning |-> panning, history |-> history,
                  future |-> future, removed |-> {}, pushed |-> 0, rendered |-> FALSE]) IN
       /\ draggingNode' = st.draggingNode
       /\ panning' = st.panning
       /\ history' = st.history
       /\ future' = st.future
       /\ listeners' = AfterRender(Without(listeners, st.removed, 1), st.rendered)
       /\ dragBegin' = IF st.draggingNode = NULL THEN <<>> ELSE dragBegin
       /\ IF st.pushed > 0 THEN Op("nodeDragEnd") ELSE Other
  /\ UNCHANGED <<nodes, edges, selectedNode, editingNode, connecting, transform, idCounter,
                 editorLabel, wheelCount>>

(* node <g> onDoubleClick: handleNodeDoubleClick(node.id).  The editor component keeps its
   label state while it stays mounted.  Setting the state to an equal node record renders
   again unless it is the very same object. *)
handleNodeDoubleClick(id, sameObject) ==
  /\ id \in NodeIds(nodes)
  /\ Released
  /\ sameObject => editingNode = <<FindNode(nodes, id)>>
  /\ editingNode' = <<FindNode(nodes, id)>>
  /\ editorLabel' = IF editingNode = <<>> THEN FindNode(nodes, id).data.label ELSE editorLabel
  /\ listeners' = AfterRender(listeners, ~sameObject)
  /\ Other
  /\ UNCHANGED <<nodes, edges, selectedNode, connecting, history, future, transform,
                 idCounter, draggingNode, panning, wheelCount, dragBegin>>

(* NodePropertiesEditor <input> onChange: setLabel, a state of the editor component only *)
EditorChange(l) ==
  /\ editingNode # <<>>
  /\ editorLabel' = l
  /\ Other
  /\ UNCHANGED <<nodes, edges, selectedNode, editingNode, connecting, history, future,
                 transform, idCounter, draggingNode, panning, listeners, wheelCount,
                 dragBegin>>

(* handleNodeUpdate(updatedNode) *)
handleNodeUpdate(h, f, ns, es, updatedNode) ==
  [history |-> pushHistory(h, f, ns, es).history,
   future |-> pushHistory(h, f, ns, es).future,
   nodes |-> ReplaceNode(ns, updatedNode)]

(* NodePropertiesEditor Save: onChange({...node, data: {...node.data, label}}); onClose() *)
EditorSave ==
  /\ editingNode # <<>>
  /\ Len(history) < MaxHist
  /\ LET r == handleNodeUpdate(history, future, nodes, edges,
                 [editingNode[1] EXCEPT !.data = [@ EXCEPT !.label = editorLabel]]) IN
       /\ history' = r.history
       /\ future' = r.future
       /\ nodes' = r.nodes
  /\ editingNode' = <<>>
  /\ editorLabel' = ""
  /\ listeners' = AfterRender(listeners, TRUE)
  /\ Op("EditorSave")
  /\ UNCHANGED <<edges, selectedNode, connecting, transform, idCounter, draggingNode,
                 panning, wheelCount, dragBegin>>

(* Variant of Cancel wired to the same handler as Save *)
EditorCancelCommits == EditorSave

(* NodePropertiesEditor Cancel: onClose() *)
EditorCancel ==
  /\ editingNode # <<>>
  /\ editingNode' = <<>>
  /\ editorLabel' = ""
  /\ listeners' = AfterRender(listeners, TRUE)
  /\ Op("EditorCancel")
  /\ UNCHANGED <<nodes, edges, selectedNode, connecting, history, future, transform,
                 idCounter, draggingNode, panning, wheelCount, dragBegin>>

(* <svg> onMouseDown; node and connect-circle presses stop propagation and never get here *)
handleCanvasMouseDown(button, target) ==
  /\ IF button # 1 /\ target \in {"svg", "canvas-bg"}
     THEN /\ HasCurrent(listeners, "pan") \/ Len(listeners) < MaxListeners
          /\ panning' = TRUE
          /\ listeners' = AddListener(listeners, "pan", <<>>, <<>>)
     ELSE UNCHANGED <<panning, listeners>>
  /\ Other
  /\ UNCHANGED <<nodes, edges, selectedNode, editingNode, connecting, history, future,
                 transform, idCounter, draggingNode, editorLabel, wheelCount, dragBegin>>

(* <svg> onClick *)
handleCanvasClick ==
  /\ Released
  /\ selectedNode' = NULL
  /\ editingNode' = <<>>
  /\ connecting' = NULL
  /\ editorLabel' = ""
  /\ listeners' = AfterRender(listeners,
                    selectedNode # NULL \/ editingNode # <<>> \/ connecting # NULL)
  /\ Op("handleCanvasClick")
  /\ UNCHANGED <<nodes, edges, history, future, transform, idCounter, draggingNode,
                 panning, wheelCount, dragBegin>>

(* <svg> onWheel *)
handleWheel(zoomIn) ==
  /\ wheelCount < WheelBound
  /\ wheelCount' = wheelCount + 1
  /\ transform' = [transform EXCEPT !.k = WheelScale(transform.k, zoomIn)]
  /\ listeners' = AfterRender(listeners, TRUE)
  /\ Other
  /\ UNCHANGED <<nodes, edges, selectedNode, editingNode, connecting, history, future,
                 idCounter, draggingNode, panning, editorLabel, dragBegin>>

(* Topbar Undo / Ctrl+Z *)
Undo ==
  /\ LET r == handleUndo(Doc) IN
       /\ nodes' = r.nodes
       /\ edges' = r.edges
       /\ history' = r.history
       /\ future' = r.future
       /\ selectedNode' = r.selectedNode
  /\ listeners' = AfterRender(listeners, history # <<>>)
  /\ IF history # <<>> THEN Op("handleUndo") ELSE Op("undoNothing")
  /\ UNCHANGED <<editingNode, connecting, transform, idCounter, draggingNode, panning,
                 editorLabel, wheelCount, dragBegin>>

(* Topbar Redo / Ctrl+Y *)
Redo ==
  /\ LET r == handleRedo(Doc) IN
       /\ nodes' = r.nodes
       /\ edges' = r.edges
       /\ history' = r.history
       /\ future' = r.future
       /\ selectedNode' = r.selectedNode
  /\ listeners' = AfterRender(listeners, future # <<>>)
  /\ IF future = <<>> THEN Op("redoNothing")
     ELSE IF lastOp.op = "handleUndo" THEN Op("undoThenRedo") ELSE Op("handleRedo")
  /\ UNCHANGED <<editingNode, connecting, transform, idCounter, draggingNode, panning,
                 editorLabel, wheelCount, dragBegin>>

TopbarUndo == Undo
TopbarRedo == Redo

(* handleKeyDown's Delete branch *)
DeleteSelected ==
  /\ Len(history) < MaxHist
  /\ history' = pushHistory(history, future, nodes, edges).history
  /\ future' = pushHistory(history, future, nodes, edges).future
  /\ nodes' = RemoveNode(nodes, selectedNode)
  /\ edges' = RemoveEdgesOf(edges, selectedNode)
  /\ selectedNode' = NULL
  /\ listeners' = AfterRender(listeners, TRUE)
  /\ Op("keyDelete")
  /\ UNCHANGED <<editingNode, connecting, transform, idCounter, draggingNode, panning,
                 editorLabel, wheelCount, dragBegin>>

(* window "keydown": handleKeyDown, registered again by the effect after every render
   that changed one of its dependencies, so it reads the current state.  inInput: the
   focus is in the label editor's <input>, the only input element there is. *)
handleKeyDown(key, ctrl, inInput) ==
  /\ inInput => editingNode # <<>>
  /\ IF inInput THEN Other /\ UNCHANGED <<nodes, edges, selectedNode, editingNode,
                       connecting, history, future, transform, idCounter, draggingNode,
                       panning, editorLabel, listeners, wheelCount, dragBegin>>
     ELSE IF ctrl /\ key = "z" THEN Undo
     ELSE IF ctrl /\ key = "y" THEN Redo
     ELSE IF key = "Delete" /\ selectedNode # NULL THEN DeleteSelected
     ELSE Other /\ UNCHANGED <<nodes, edges, selectedNode, editingNode,
                       connecting, history, future, transform, idCounter, draggingNode,
                       panning, editorLabel, listeners, wheelCount, dragBegin>>

Next ==
  \/ /\ profile \in {"document", "connect"}
     /\ \E p \in Positions, skip \in 0..MaxSkip : handleAddNode("default", p, skip)
  \/ /\ profile \in {"connect"}
     /\ \E id \in NodeIds(nodes) : handleStartConnect(id)
  \/ /\ profile \in {"drag", "connect"}
     /\ \E id \in NodeIds(nodes) : handleNodeMouseDown(id)
  \/ \E id \in NodeIds(nodes) : NodeClick(id)
  \/ /\ profile \in {"drag", "connect"}
     /\ \E p \in Positions, o \in PanOffsets : WindowMouseMove(p, o)
  \/ /\ profile \in {"drag", "connect"}
     /\ WindowMouseUp
  \/ /\ profile \in {"document"}
     /\ \E id \in NodeIds(nodes), sameObject \in BOOLEAN : handleNodeDoubleClick(id, sameObject)
  \/ /\ profile \in {"document"}
     /\ \E l \in TypedLabels : EditorChange(l)
  \/ /\ profile \in {"document"}
     /\ EditorSave
  \/ /\ profile \in {"document"}
     /\ EditorCancel
  \/ /\ profile \in {"drag", "connect"}
     /\ \E button \in Buttons, target \in Targets : handleCanvasMouseDown(button, target)
  \/ handleCanvasClick
  \/ /\ profile \in {"drag"}
     /\ \E zoomIn \in BOOLEAN : handleWheel(zoomIn)
  \/ /\ profile \in {"document", "drag"}
     /\ TopbarUndo
  \/ /\ profile \in {"document", "drag"}
     /\ TopbarRedo
  \/ /\ profile \in {"document", "drag"}
     /\ \E key \in Keys, ctrl \in BOOLEAN, inInput \in BOOLEAN : handleKeyDown(key, ctrl, inInput)

Spec == Init /\ [][Next]_vars

NextView ==
  \/ \E zoomIn \in BOOLEAN : handleWheel(zoomIn)
  \/ \E button \in Buttons, target \in Targets : handleCanvasMouseDown(button, target)
  \/ \E p \in Positions, o \in FarOffsets : WindowMouseMove(p, o)
  \/ WindowMouseUp

SpecView == InitView /\ [][NextView]_vars

(* An editing session (SpecEdit) uses the label editor together with the node drag and
   undo on the initial node. *)
InitEdit ==
  /\ Start
  /\ profile = "edit"

NextEdit ==
  \/ \E id \in NodeIds(nodes), sameObject \in BOOLEAN : handleNodeDoubleClick(id, sameObject)
  \/ \E l \in TypedLabels : EditorChange(l)
  \/ EditorSave
  \/ EditorCancel
  \/ \E id \in NodeIds(nodes) : handleNodeMouseDown(id)
  \/ \E p \in Positions, o \in {[x |-> 0, y |-> 0]} : WindowMouseMove(p, o)
  \/ WindowMouseUp
  \/ TopbarUndo

SpecEdit == InitEdit /\ [][NextEdit]_vars

(* A linking session (SpecLink) uses the connect handle together with the operations
   that remove nodes: the sidebar, selection, the keyboard and the canvas click. *)
InitLink ==
  /\ Start
  /\ profile = "link"

NextLink ==
  \/ \E p \in Positions, skip \in 0..MaxSkip : handleAddNode("default", p, skip)
  \/ \E id \in NodeIds(nodes) : handleStartConnect(id)
  \/ \E id \in NodeIds(nodes) : NodeClick(id)
  \/ \E key \in Keys, ctrl \in BOOLEAN : handleKeyDown(key, ctrl, FALSE)
  \/ handleCanvasClick

SpecLink == InitLink /\ [][NextLink]_vars

----------------------------------------------------------------------------
(* Properties *)

Snapshot == [nodes |-> nodes, edges |-> edges]
HasEdge(es, from, to) ==
  \E i \in DOMAIN es : es[i] = [from |-> from, to |-> to, id |-> <<"e", from, to>>]
SnapshotIds(stack) == UNION {NodeIds(stack[i].nodes) : i \in DOMAIN stack}
Distinct(ns) == \A i, j \in DOMAIN ns : ns[i].id = ns[j].id => i = j

(* C1: every recorded operation (add node, completed drag, label save, Delete-key
   deletion) pushes onto the past stack the {nodes, edges} value that held immediately
   before the operation began (for a drag: at the pointer-down that began it), so that
   one undo right after the operation restores exactly that value. *)
C1_PushedSnapshotIsPreState ==
  [][ /\ lastOp'.op \in {"handleAddNode", "EditorSave", "keyDelete"} =>
           /\ Last(history') = Snapshot
           /\ handleUndo(Doc)'.nodes = nodes
           /\ handleUndo(Doc)'.edges = edges
      /\ lastOp'.op = "nodeDragEnd" =>
           /\ dragBegin # <<>>
           /\ Last(history') = dragBegin[1]
           /\ handleUndo(Doc)'.nodes = dragBegin[1].nodes
           /\ handleUndo(Doc)'.edges = dragBegin[1].edges ]_vars

(* C2: in every state with a non-empty past stack, undo immediately followed by redo
   restores nodes, edges, the past stack and the future stack. *)
C2_UndoRedoRoundTrip ==
  history # <<>> =>
    LET r == handleRedo(handleUndo(Doc)) IN
      /\ r.nodes = nodes
      /\ r.edges = edges
      /\ r.history = history
      /\ r.future = future

(* a redo has just followed an undo, with a state left to go back to *)
C2_Witness ==
  /\ lastOp.op = "undoThenRedo"
  /\ history # <<>>
  /\ Last(history).nodes # nodes

(* C3: every recorded mutation leaves the future stack empty, so that a redo issued
   after it changes nothing. *)
C3_MutationClearsFuture ==
  [][ lastOp'.op \in RecordedOps => (future' = <<>> /\ handleRedo(Doc)' = Doc') ]_vars

(* a recorded mutation has just run in a state whose future stack was not empty *)
C3_Witness ==
  /\ lastOp.op \in RecordedOps
  /\ lastOp.futLen > 0
  /\ future = <<>>

(* C4: while a connection is in progress from node A, a pointer down/up on another
   existing node B clears connecting, pushes one snapshot and adds the edge A -> B. *)
C4_ConnectCompletesOnOtherNode ==
  [][ ( /\ connecting # NULL
        /\ draggingNode \in NodeIds(nodes) \ {connecting}
        /\ WindowMouseUp )
      => ( /\ connecting' = NULL
           /\ Len(history') = Len(history) + 1
           /\ Len(edges') = Len(edges) + 1
           /\ HasEdge(edges', connecting, draggingNode) ) ]_vars

(* C5: the Delete-key deletion of the selected node removes that node and every edge
   touching it, keeps every other node and edge, clears the selection and pushes
   exactly one snapshot. *)
C5_DeleteCascades ==
  [][ lastOp'.op = "keyDelete" =>
        /\ selectedNode # NULL
        /\ selectedNode \notin NodeIds(nodes')
        /\ \A i \in DOMAIN edges' : edges'[i].from # selectedNode /\ edges'[i].to # selectedNode
        /\ {nodes'[i] : i \in DOMAIN nodes'} = {nodes[i] : i \in DOMAIN nodes} \ {n \in {nodes[i] : i \in DOMAIN nodes} : n.id = selectedNode}
        /\ {edges'[i] : i \in DOMAIN edges'} = {e \in {edges[i] : i \in DOMAIN edges} : e.from # selectedNode /\ e.to # selectedNode}
        /\ selectedNode' = NULL
        /\ Len(history') = Len(history) + 1 ]_vars

(* a deletion has just removed one of two nodes *)
C5_Witness ==
  /\ lastOp.op = "keyDelete"
  /\ Len(nodes) = 1
  /\ Len(Last(history).nodes) = 2
  /\ selectedNode = NULL

(* C6: no edge is a self-loop, and a pointer down/up on the source node of the connection
   in progress adds no edge, pushes no snapshot, keeps the future stack and clears
   connecting. *)
C6_SelfConnectCancels ==
  /\ [](\A i \in DOMAIN edges : edges[i].from # edges[i].to)
  /\ [][ (connecting # NULL /\ draggingNode = connecting /\ WindowMouseUp)
         => (edges' = edges /\ history' = history /\ future' = future /\ connecting' = NULL) ]_vars

(* C7: at most one of the gesture modes dragging, panning, connecting is active. *)
C7_OneGestureMode ==
  Cardinality({m \in {"dragging", "panning", "connecting"} :
                 \/ m = "dragging" /\ draggingNode # NULL
                 \/ m = "panning" /\ panning
                 \/ m = "connecting" /\ connecting # NULL}) <= 1

(* C8: a drag gesture adds exactly one entry to the past stack: a pointer-down on a node
   and a pointer-move add none, the pointer-up that ends a drag adds one whatever handlers
   are registered, and a pointer-up without a drag in progress adds none. *)
C8_OneSnapshotPerDrag ==
  [][ /\ (\E id \in NodeIds(nodes) : handleNodeMouseDown(id)) => history' = history
      /\ (\E p \in Positions, o \in PanOffsets : WindowMouseMove(p, o)) => history' = history
      /\ WindowMouseUp =>
           /\ draggingNode' = NULL
           /\ history' # history => SubSeq(history', 1, Len(history)) = history
           /\ Len(history') = Len(history) + (IF draggingNode # NULL THEN 1 ELSE 0) ]_vars

(* a drag has just ended, pushing one entry, with a handler of an earlier pointer-down
   still registered *)
C8_Witness ==
  /\ lastOp.op = "nodeDragEnd"
  /\ Len(history) = lastOp.histLen + 1
  /\ draggingNode = NULL
  /\ \E i \in DOMAIN listeners : listeners[i].kind = "drag"

(* C9: whenever no drag and no pan is active, no drag or pan listener is registered on
   the window. *)
C9_NoListenerLeak ==
  (draggingNode = NULL /\ ~panning) => listeners = <<>>

(* C10: node ids are pairwise distinct in every state, the id counter never decreases,
   every id in use or remembered is below the counter, and add-node hands out an id at
   or above the counter, so no id is handed out twice. *)
C10_IdsUniqueNeverReused ==
  /\ [](/\ Distinct(nodes)
        /\ \A id \in NodeIds(nodes) \cup SnapshotIds(history) \cup SnapshotIds(future)
                     \cup SnapshotIds(listeners) \cup NodeIds(editingNode) : id < idCounter)
  /\ [][ /\ idCounter' >= idCounter
         /\ lastOp'.op = "handleAddNode" =>
              /\ Len(nodes') = Len(nodes) + 1
              /\ Last(nodes').id >= idCounter
              /\ Last(nodes').id < idCounter'
              /\ SubSeq(nodes', 1, Len(nodes)) = nodes ]_vars

(* a node has just been added after the node with an earlier id was removed *)
C10_Witness ==
  /\ lastOp.op = "handleAddNode"
  /\ \E id \in SnapshotIds(history) : id \notin NodeIds(nodes) /\ id < Last(nodes).id

(* C11: for a node id that is not in the model, a move (a drag tick, handleDragNode), a
   label update (the save of an editor whose node has been removed since) and a node
   deletion leave nodes and edges unchanged. *)
AbsentIds == (0..MaxId) \ NodeIds(nodes)
C11_UnknownIdIsNoOp ==
  /\ [](\A id \in AbsentIds :
          /\ \A p \in Positions : MoveNodeTo(nodes, id, p) = nodes
          /\ handleDragNode(nodes, id, 40, 40) = nodes
          /\ ReplaceNode(nodes, NewNode(id, "default", [x |-> 220, y |-> 170])) = nodes
          /\ RemoveNode(nodes, id) = nodes
          /\ RemoveEdgesOf(edges, id) = edges)
  /\ [][ /\ ( /\ draggingNode \in AbsentIds
               /\ \E p \in Positions, o \in PanOffsets : WindowMouseMove(p, o) )
             => (nodes' = nodes /\ edges' = edges)
         /\ ( /\ editingNode # <<>>
               /\ editingNode[1].id \in AbsentIds
               /\ EditorSave )
             => (nodes' = nodes /\ edges' = edges) ]_vars

(* the label editor has just saved into a document that no longer holds any node *)
C11_Witness ==
  /\ lastOp.op = "EditorSave"
  /\ nodes = <<>>
  /\ history # <<>>
  /\ Last(history).nodes = <<>>

(* C12: undo with an empty past stack and redo with an empty future stack are no-ops:
   nodes, edges, past, future and the selection keep their values. *)
C12_EmptyUndoRedoNoOp ==
  /\ [](/\ history = <<>> => handleUndo(Doc) = Doc
        /\ future = <<>> => handleRedo(Doc) = Doc)
  /\ [][ lastOp'.op \in {"undoNothing", "redoNothing"} => Doc' = Doc ]_vars

(* an undo has just found the past stack empty, with a node selected and a state to redo *)
C12_Witness ==
  /\ lastOp.op = "undoNothing"
  /\ history = <<>>
  /\ future # <<>>
  /\ selectedNode # NULL

(* C13: the cancel transitions never mutate the document: a canvas-background click clears
   the selection, label editing and the connection in progress, a label-editor Cancel
   clears label editing, and both leave nodes, edges, the past stack and the future stack
   unchanged. *)
C13_CancelKeepsDocument ==
  [][ /\ handleCanvasClick =>
           /\ selectedNode' = NULL /\ editingNode' = <<>> /\ connecting' = NULL
           /\ UNCHANGED <<nodes, edges, history, future>>
      /\ EditorCancel =>
           /\ editingNode' = <<>>
           /\ UNCHANGED <<nodes, edges, history, future>> ]_vars

(* the label editor has just been cancelled on a document with both stacks in use, and
   no node carries a typed label *)
C13_Witness ==
  /\ lastOp.op = "EditorCancel"
  /\ editingNode = <<>>
  /\ history # <<>>
  /\ future # <<>>
  /\ \A i \in DOMAIN nodes : nodes[i].data.label \notin TypedLabels

(* C14: view state and document state are separate: pan start, pan move, pan end and
   wheel zoom leave nodes, edges, the past stack and the future stack unchanged, and undo
   and redo leave the transform unchanged. *)
C14_ViewAndDocumentSeparate ==
  [][ /\ (\E button \in Buttons, target \in Targets : handleCanvasMouseDown(button, target))
           => UNCHANGED <<nodes, edges, history, future>>
      /\ ( /\ draggingNode = NULL
            /\ \E p \in Positions, o \in PanOffsets : WindowMouseMove(p, o) )
           => UNCHANGED <<nodes, edges, history, future>>
      /\ (draggingNode = NULL /\ WindowMouseUp)
           => UNCHANGED <<nodes, edges, history, future>>
      /\ (\E zoomIn \in BOOLEAN : handleWheel(zoomIn))
           => UNCHANGED <<nodes, edges, history, future>>
      /\ lastOp'.op \in {"handleUndo", "handleRedo", "undoThenRedo", "undoNothing", "redoNothing"}
           => transform' = transform ]_vars

(* an undo has just run on a view that was panned and zoomed, while a pan is in progress *)
C14_Witness ==
  /\ lastOp.op = "handleUndo"
  /\ transform.x # 0
  /\ transform.k # KUnit
  /\ panning

(* C15: the zoom factor k stays within [0.2, 2.5] for any sequence of zoom-in and zoom-out
   wheel events interleaved with other operations; pan offsets are not clamped: a pan
   move sets the offset it computes, however far. *)
C15_ZoomClamped ==
  /\ [](KMin <= transform.k /\ transform.k <= KMax)
  /\ [][ \A o \in FarOffsets :
           ( /\ panning
             /\ \E i \in DOMAIN listeners : listeners[i].kind = "pan"
             /\ \E p \in Positions : WindowMouseMove(p, o) )
           => (transform'.x = o.x /\ transform'.y = o.y /\ transform'.k = transform.k) ]_vars

(* the view is panned far and a zoom-out notch has just been handled at the lower end *)
C15_Witness ==
  /\ transform.k = KMin
  /\ wheelCount = MaxNotches
  /\ transform.x = 1000000

(* C16: starting from the initial state, after n completed recorded operations (and no
   drag left in progress) the past stack has depth n, and n undos performed then give the
   initial single-node graph, an empty past stack and a future stack of depth n. *)
RECURSIVE UndoTimes(_, _)
UndoTimes(d, n) == IF n = 0 THEN d ELSE UndoTimes(handleUndo(d), n - 1)
C16_UndoAllRestoresInitial ==
  (lastOp.ops # NULL /\ draggingNode = NULL) =>
    /\ Len(history) = lastOp.ops
    /\ future = <<>>
    /\ LET d == UndoTimes(Doc, lastOp.ops) IN
         /\ d.nodes = InitialNodes
         /\ d.edges = <<>>
         /\ d.history = <<>>
         /\ Len(d.future) = lastOp.ops

(* C17: saving a label edit for node n changes only n's data.label: n's id, type and
   position, every other node and every edge keep the values they had immediately before
   the save, also when n was moved after the editor was opened on it. *)
C17_SaveChangesLabelOnly ==
  [][ ( /\ editingNode # <<>>
        /\ editingNode[1].id \in NodeIds(nodes)
        /\ EditorSave )
      => ( /\ nodes' = [i \in DOMAIN nodes |->
                          IF nodes[i].id = editingNode[1].id
                          THEN [nodes[i] EXCEPT !.data = [@ EXCEPT !.label = editorLabel]]
                          ELSE nodes[i]]
           /\ edges' = edges ) ]_vars

(* C18: every edge's from and to are ids of nodes present in the model: edges are created
   only between two existing distinct nodes, also when the source node of the connection
   in progress was deleted or undone away before the connection is completed on an
   existing node. *)
EndpointsPresent(es, ns) ==
  \A i \in DOMAIN es : es[i].from \in NodeIds(ns) /\ es[i].to \in NodeIds(ns)
Near(a, b) == a - b <= 1 /\ b - a <= 1
Unclamped(k, zoomIn) ==
  LET raw == (k * (IF zoomIn THEN ZoomInPct ELSE ZoomOutPct)) \div 100 IN
    KMin <= raw /\ raw <= KMax
C19_ZoomNotchesInverse ==
  [][ /\ (handleWheel(TRUE) /\ Unclamped(transform.k, TRUE)) =>
           /\ Near(transform'.k, (transform.k * ZoomInPct) \div 100)
           /\ Unclamped(transform'.k, FALSE) =>
                 Near(WheelScale(transform'.k, FALSE), transform.k)
      /\ (handleWheel(FALSE) /\ Unclamped(transform.k, FALSE)) =>
           Near(transform'.k, (transform.k * 100) \div ZoomInPct) ]_vars

(* C20: the selection is empty or the id of a node present in the model: deletion, undo
   and redo clear the selection when they take effect, and no other operation removes a
   node. *)
C20_SelectionIsPresentNode ==
  /\ [](selectedNode = NULL \/ selectedNode \in NodeIds(nodes))
  /\ [][ IF lastOp'.op \in {"keyDelete", "handleUndo", "handleRedo", "undoThenRedo"}
         THEN selectedNode' = NULL
         ELSE NodeIds(nodes) \subseteq NodeIds(nodes') ]_vars

(* an undo has just taken a node out of the model, leaving nothing selected *)
C20_Witness ==
  /\ lastOp.op = "handleUndo"
  /\ selectedNode = NULL
  /\ Len(future[1].nodes) = Len(nodes) + 1
  /\ NodeIds(future[1].nodes) # NodeIds(nodes)

====
